---- MODULE Spec2Model ----
(***************************************************************************)
(* The "weights" pallet of the recipes repository                          *)
(* (pallets/weights/src/lib.rs): one storage value, StoredValue: u32,      *)
(* three custom weighing scales (Linear, Quadratic, Conditional) and five  *)
(* dispatchable calls that loop over the storage value.                    *)
(*                                                                         *)
(* u32 is modelled at a reduced width: U32_MAX stands for u32::MAX.  All   *)
(* arithmetic of the model is done relative to U32_MAX, so the overflow    *)
(* behaviour of the code (saturating_* in the scales, plain `+` in the     *)
(* calls) is kept.  Plain `+` on u32 panics when the crate is built with   *)
(* overflow checks (the dev and test profiles) and wraps otherwise (the    *)
(* release profile); overflow_checks is the build's choice.                *)
(***************************************************************************)
EXTENDS Integers, Sequences, FiniteSets, TLC

\* u32::MAX at the width of the model.
U32_MAX == 511

\* Arguments are drawn from 0..MaxArg and U32_MAX-MaxArg..U32_MAX.
MaxArg == 1

\* The first argument of complex_calculations (x*x storage cycles) is in 0..MaxX.
MaxX == 2

VARIABLES
    StoredValue,      \* decl_storage: StoredValue get(fn stored_value): u32
    overflow_checks,  \* the build: TRUE = `+` panics on overflow, FALSE = wraps
    call,             \* the last call dispatched ("none" before the first)
    args,             \* its arguments
    scale,            \* the scale its #[weight = ...] attribute names
    weight,           \* the weight the scale gave for args, before execution
    before,           \* StoredValue when the call started
    result,           \* "Pending" (weighed, not run yet), "Ok", "Err" (ensure!
                      \* failed) or "Panic"
    cycles            \* StoredValue read-then-write cycles the call completed

vars == <<StoredValue, overflow_checks, call, args, scale, weight, before,
          result, cycles>>

U32 == 0..U32_MAX

\* The arguments tried: the small ones, the largest ones, and the two around
\* the half of U32_MAX (where doubling starts to overflow).
U32Inputs ==
    (0..MaxArg) \cup ((U32_MAX - MaxArg)..U32_MAX)
    \cup {U32_MAX \div 2, (U32_MAX \div 2) + 1}

Min(a, b) == IF a <= b THEN a ELSE b

----------------------------------------------------------------------------
(* u32 arithmetic *)

\* u32::saturating_mul
saturating_mul(a, b) == IF a * b > U32_MAX THEN U32_MAX ELSE a * b

\* u32::saturating_add
saturating_add(a, b) == IF a + b > U32_MAX THEN U32_MAX ELSE a + b

\* The `+` and `+=` of the calls: [panic, value].  On overflow the build with
\* overflow checks panics, the build without wraps modulo 2^width.
add(a, b) ==
    IF a + b <= U32_MAX THEN [panic |-> FALSE, value |-> a + b]
    ELSE IF overflow_checks THEN [panic |-> TRUE, value |-> a]
    ELSE [panic |-> FALSE, value |-> (a + b) % (U32_MAX + 1)]

----------------------------------------------------------------------------
(* The scales: impl WeighData for Linear, Quadratic, Conditional *)

Linear(c) == [kind |-> "Linear", coef |-> <<c>>]
Quadratic(a, b, c) == [kind |-> "Quadratic", coef |-> <<a, b, c>>]
Conditional(c) == [kind |-> "Conditional", coef |-> <<c>>]
FixedNormal(w) == [kind |-> "FixedNormal", coef |-> <<w>>]

Linear_weigh_data(self, x) == saturating_mul(x, self[1])

\* Quadratic::weigh_data with x*x computed by a wrapping multiplication.
Quadratic_weigh_data_wrapping_square(self, x, y) ==
    LET ax2 == saturating_mul((x * x) % (U32_MAX + 1), self[1])
        by  == saturating_mul(y, self[2])
        c   == self[3]
    IN  saturating_add(saturating_add(ax2, by), c)

Quadratic_weigh_data(self, x, y) ==
    LET ax2 == saturating_mul(saturating_mul(x, x), self[1])
        by  == saturating_mul(y, self[2])
        c   == self[3]
    IN  saturating_add(saturating_add(ax2, by), c)

\* Conditional::weigh_data with the branches exchanged.
Conditional_weigh_data_exchanged(self, switch, val) ==
    IF switch THEN self[1] ELSE saturating_mul(val, self[1])

Conditional_weigh_data(self, switch, val) ==
    IF switch THEN saturating_mul(val, self[1]) ELSE self[1]

\* The weight the host computes from a call's scale and arguments.
weigh_data(s, a) ==
    CASE s.kind = "Linear"      -> Linear_weigh_data(s.coef, a[1])
      [] s.kind = "Quadratic"   -> Quadratic_weigh_data(s.coef, a[1], a[2])
      [] s.kind = "Conditional" -> Conditional_weigh_data(s.coef, a[1], a[2])
      [] s.kind = "FixedNormal" -> s.coef[1]

----------------------------------------------------------------------------
(* The loops of the calls.  A loop state is [value, cycles, panic]: the     *)
(* storage value, the read-then-write cycles completed, whether it panicked *)
(* (a panic ends the call: the iterations left do nothing).  A loop of n    *)
(* iterations is its first n \div 2 iterations followed by the rest, which  *)
(* keeps the evaluation shallow.                                           *)

Start(v) == [value |-> v, cycles |-> 0, panic |-> FALSE]

\* old = StoredValue::get(); StoredValue::put(old + 1);
increment(s) ==
    IF s.panic THEN s
    ELSE LET r == add(s.value, 1)
         IN  IF r.panic THEN [s EXCEPT !.panic = TRUE]
             ELSE [value |-> r.value, cycles |-> s.cycles + 1, panic |-> FALSE]

\* for _i in 1..=n { old = StoredValue::get(); StoredValue::put(old + 1); }
RECURSIVE increment_loop(_, _)
increment_loop(n, s) ==
    IF s.panic \/ n = 0 THEN s
    ELSE IF n = 1 THEN increment(s)
    ELSE LET half == increment_loop(n \div 2, s)
         IN  increment_loop(n - (n \div 2), half)

\* for _j in 1..=x { for _k in 1..=x { put(get() + 1) } }: j outer
\* iterations of the inner loop of x iterations.
RECURSIVE square_loop(_, _, _)
square_loop(j, x, s) ==
    IF s.panic \/ j = 0 THEN s
    ELSE square_loop(j - 1, x, increment_loop(x, s))

\* part1 += 2
part1_step(acc) == IF acc.panic THEN acc ELSE add(acc.value, 2)

\* let mut part1 = 0; for _i in 1..=y { part1 += 2 }
RECURSIVE part1_loop(_, _)
part1_loop(y, acc) ==
    IF acc.panic \/ y = 0 THEN acc
    ELSE IF y = 1 THEN part1_step(acc)
    ELSE LET half == part1_loop(y \div 2, acc)
         IN  part1_loop(y - (y \div 2), half)

\* StoredValue::put(StoredValue::get());
rewrite(s) == [s EXCEPT !.cycles = s.cycles + 1]

\* for _i in 1..=val { StoredValue::put(StoredValue::get()); }
RECURSIVE rewrite_loop(_, _)
rewrite_loop(n, s) ==
    IF s.panic \/ n = 0 THEN s
    ELSE IF n = 1 THEN rewrite(s)
    ELSE LET half == rewrite_loop(n \div 2, s)
         IN  rewrite_loop(n - (n \div 2), half)

Outcome(s) == IF s.panic THEN "Panic" ELSE "Ok"

----------------------------------------------------------------------------
(* Dispatch.  The host weighs a call from its arguments with the scale of   *)
(* its #[weight = ...] attribute before it runs the call's body.           *)

Dispatch(name, a, s) ==
    /\ result # "Pending"
    /\ call' = name
    /\ args' = a
    /\ scale' = s
    /\ weight' = weigh_data(s, a)
    /\ before' = StoredValue
    /\ result' = "Pending"
    /\ cycles' = 0
    /\ UNCHANGED <<StoredValue, overflow_checks>>

Call_store_value(entry) == Dispatch("store_value", <<entry>>, FixedNormal(100))

Call_add_n(n) == Dispatch("add_n", <<n>>, Linear(200))

Call_double(initial_value) == Dispatch("double", <<initial_value>>, Linear(200))

Call_complex_calculations(x, y) ==
    Dispatch("complex_calculations", <<x, y>>, Quadratic(200, 30, 100))

Call_add_or_set(add_flag, val) ==
    Dispatch("add_or_set", <<add_flag, val>>, Conditional(200))

\* The body of a call ends: the storage holds what the body wrote.
Return(value, res, n) ==
    /\ StoredValue' = value
    /\ result' = res
    /\ cycles' = n
    /\ UNCHANGED <<overflow_checks, call, args, scale, weight, before>>

Running(name) == call = name /\ result = "Pending"

----------------------------------------------------------------------------
(* The bodies of the calls of decl_module! *)

store_value ==
    /\ Running("store_value")
    /\ LET entry == args[1]
       IN  Return(entry, "Ok", 0)

add_n ==
    /\ Running("add_n")
    /\ LET n == args[1]
           s == increment_loop(n, Start(StoredValue))
       IN  Return(s.value, Outcome(s), s.cycles)

\* double with ensure! placed after the loop.
double_ensure_after_loop ==
    /\ Running("double")
    /\ LET initial_value == args[1]
           initial == StoredValue
           s == increment_loop(initial, Start(StoredValue))
       IN  IF s.panic THEN Return(s.value, "Panic", s.cycles)
           ELSE IF initial # initial_value
           THEN Return(s.value, "Err", s.cycles)
           ELSE Return(s.value, "Ok", s.cycles)

\* double with the loop bound read from storage at each iteration: the loop
\* stops once the iteration count reaches the value stored, which has grown.
double_bound_reread ==
    /\ Running("double")
    /\ LET initial_value == args[1]
           initial == StoredValue
       IN  IF initial # initial_value
           THEN Return(StoredValue, "Err", 0)
           ELSE LET s == increment_loop(IF initial = 0 THEN 0 ELSE initial - 1,
                                        Start(StoredValue))
                IN  Return(s.value, Outcome(s), s.cycles)

double ==
    /\ Running("double")
    /\ LET initial_value == args[1]
           initial == StoredValue
       IN  IF initial # initial_value
           THEN Return(StoredValue, "Err", 0)
           ELSE LET s == increment_loop(initial, Start(StoredValue))
                IN  Return(s.value, Outcome(s), s.cycles)

complex_calculations ==
    /\ Running("complex_calculations")
    /\ LET x == args[1]
           y == args[2]
           part1 == part1_loop(y, [panic |-> FALSE, value |-> 0])
       IN  IF part1.panic
           THEN Return(StoredValue, "Panic", 0)
           ELSE LET s == square_loop(x, x, Start(StoredValue))
                IN  IF s.panic
                    THEN Return(s.value, "Panic", s.cycles)
                    ELSE Return(part1.value, "Ok", s.cycles)

\* add_or_set with the test of add_flag negated.
add_or_set_negated_flag ==
    /\ Running("add_or_set")
    /\ LET add_flag == args[1]
           val == args[2]
       IN  IF ~add_flag
           THEN Return(val, "Ok", 0)
           ELSE LET s == rewrite_loop(val, Start(StoredValue))
                IN  Return(s.value, "Ok", s.cycles)

add_or_set ==
    /\ Running("add_or_set")
    /\ LET add_flag == args[1]
           val == args[2]
       IN  IF add_flag
           THEN Return(val, "Ok", 0)
           ELSE LET s == rewrite_loop(val, Start(StoredValue))
                IN  Return(s.value, "Ok", s.cycles)

----------------------------------------------------------------------------
(* The pallet under a host that dispatches one call at a time *)

Init ==
    /\ StoredValue = 0
    /\ overflow_checks \in BOOLEAN
    /\ call = "none"
    /\ args = <<>>
    /\ scale = FixedNormal(0)
    /\ weight = 0
    /\ before = 0
    /\ result = "Ok"
    /\ cycles = 0

Next ==
    \/ \E entry \in U32Inputs : Call_store_value(entry)
    \/ \E n \in U32Inputs : Call_add_n(n)
    \/ \E initial_value \in U32Inputs \cup {StoredValue} : Call_double(initial_value)
    \/ \E x \in 0..MaxX, y \in U32Inputs : Call_complex_calculations(x, y)
    \/ \E add_flag \in BOOLEAN, val \in U32Inputs : Call_add_or_set(add_flag, val)
    \/ store_value
    \/ add_n
    \/ double
    \/ complex_calculations
    \/ add_or_set

Spec == Init /\ [][Next]_vars

----------------------------------------------------------------------------
(* The scales alone: coefficients and parameters are drawn, then weighed *)

\* The largest r with r*r <= U32_MAX.
Root == CHOOSE r \in U32 : r * r <= U32_MAX /\ (r + 1) * (r + 1) > U32_MAX

WeighInputs == U32Inputs \cup {Root, Root + 1}

Scales ==
    {Linear(c) : c \in WeighInputs}
    \cup {Quadratic(a, b, c) : a \in WeighInputs, b \in WeighInputs, c \in WeighInputs}
    \cup {Conditional(c) : c \in WeighInputs}

Params(s) ==
    CASE s.kind = "Linear"      -> {<<x>> : x \in WeighInputs}
      [] s.kind = "Quadratic"   -> WeighInputs \X WeighInputs
      [] s.kind = "Conditional" -> BOOLEAN \X WeighInputs

WeighInit ==
    /\ StoredValue = 0
    /\ overflow_checks = FALSE
    /\ call = "weigh_data"
    /\ scale \in Scales
    /\ args \in Params(scale)
    /\ weight = 0
    /\ before = 0
    /\ result = "Pending"
    /\ cycles = 0

Weigh ==
    /\ call = "weigh_data"
    /\ result = "Pending"
    /\ weight' = weigh_data(scale, args)
    /\ result' = "Ok"
    /\ UNCHANGED <<StoredValue, overflow_checks, call, args, scale, before, cycles>>

WeighNext == Weigh

WeighSpec == WeighInit /\ [][WeighNext]_vars

----------------------------------------------------------------------------
(* Properties *)

\* The call `name` has run to its end (or to its panic).
Done(name) == call = name /\ result # "Pending"

\* C1: double(initial_value) with initial_value different from the stored
\* value returns the validation error and leaves StoredValue as it was; no
\* read-then-write cycle has run.
C1_DoubleMismatchRejected ==
    (Done("double") /\ args[1] # before)
        => (result = "Err" /\ StoredValue = before /\ cycles = 0)

C1_Witness ==
    Done("double") /\ args[1] # before /\ before > 0 /\ result = "Err"

\* C2: double(initial_value) with initial_value equal to the stored value s,
\* 2*s within u32, succeeds with StoredValue = 2*s after exactly s cycles.
C2_DoubleDoubles ==
    (Done("double") /\ args[1] = before /\ 2 * before <= U32_MAX)
        => (result = "Ok" /\ StoredValue = 2 * before /\ cycles = before)

C2_Witness ==
    /\ Done("double") /\ args[1] = before /\ before = U32_MAX \div 2
    /\ StoredValue = 2 * before

\* C3: add_n(n) always succeeds and ends with StoredValue = before + n.
C3_AddNExact ==
    Done("add_n") => (result = "Ok" /\ StoredValue = before + args[1])

\* C4: complex_calculations(x, y) with 2*y within u32 ends with
\* StoredValue = 2*y, whatever x and the value stored before.
C4_ComplexEndsAtTwiceY ==
    (Done("complex_calculations") /\ 2 * args[2] <= U32_MAX)
        => StoredValue = 2 * args[2]

\* C5: add_or_set(true, val) ends with StoredValue = val; add_or_set(false,
\* val) ends with StoredValue as before the call, after val cycles.
C5_AddOrSet ==
    Done("add_or_set")
        => /\ result = "Ok"
           /\ args[1] => (StoredValue = args[2] /\ cycles = 0)
           /\ ~args[1] => (StoredValue = before /\ cycles = args[2])

C5_Witness ==
    /\ Done("add_or_set") /\ ~args[1] /\ args[2] > 1
    /\ before > 0 /\ StoredValue = before

\* C6: every arithmetic update of StoredValue saturates: StoredValue stays
\* within u32, and add_n, double and complex_calculations neither wrap nor
\* abort when an increment meets U32_MAX.
C6_UpdatesSaturate ==
    /\ StoredValue \in U32
    /\ Done("add_n")
        => (result = "Ok" /\ StoredValue = Min(before + args[1], U32_MAX))
    /\ (Done("double") /\ args[1] = before)
        => (result = "Ok" /\ StoredValue = Min(2 * before, U32_MAX))
    /\ Done("complex_calculations") => result = "Ok"

\* C7: store_value, add_n, complex_calculations and add_or_set always return
\* success; the only failure is double's validation error.
C7_CallsTotal ==
    \/ result \in {"Pending", "Ok"}
    \/ (call = "double" /\ result = "Err" /\ args[1] # before)

\* C8: Quadratic(a, b, c) applied to (x, y) is min(x*x*a + y*b + c, U32_MAX)
\* computed in unbounded integers.
C8_QuadraticClamped ==
    (Done("weigh_data") /\ scale.kind = "Quadratic")
        => /\ weight = Min(args[1] * args[1] * scale.coef[1]
                             + args[2] * scale.coef[2] + scale.coef[3], U32_MAX)
           /\ weight \in U32

C8_Witness ==
    /\ Done("weigh_data") /\ scale.kind = "Quadratic"
    /\ args[1] * args[1] > U32_MAX /\ scale.coef[1] = 0
    /\ args[2] * scale.coef[2] + scale.coef[3] < U32_MAX
    /\ weight > 0

\* C9: Conditional(c) applied to (true, val) is min(val*c, U32_MAX), the
\* weight Linear(c) gives for val; applied to (false, val) it is c.
C9_ConditionalBranches ==
    /\ (Done("weigh_data") /\ scale.kind = "Conditional")
        => /\ args[1] => /\ weight = Min(args[2] * scale.coef[1], U32_MAX)
                         /\ weight = Linear_weigh_data(scale.coef, args[2])
           /\ ~args[1] => weight = scale.coef[1]
    /\ (Done("weigh_data") /\ scale.kind = "Linear")
        => weight = Min(args[1] * scale.coef[1], U32_MAX)

C9_Witness ==
    /\ Done("weigh_data") /\ scale.kind = "Conditional"
    /\ args[1] /\ args[2] * scale.coef[1] > U32_MAX /\ weight = U32_MAX

\* C10: when the weight of a call did not saturate, 200 times the number of
\* read-then-write cycles the call ran is at most that weight.
C10_WeightBoundsCycles ==
    (call \in {"store_value", "add_n", "double", "complex_calculations",
               "add_or_set"}
     /\ result # "Pending" /\ weight < U32_MAX)
        => 200 * cycles <= weight

====
